---- MODULE Spec2Model ----
(***************************************************************************)
(* Menara Framework - application entry point (src/app.py).                *)
(*                                                                         *)
(* The model follows one server process: the application object as it is   *)
(* after the module-level assembly of app.py (middleware chain, route      *)
(* table), the startup event that calls load_modules(app), and the         *)
(* requests served once the ASGI server is ready.                          *)
(*                                                                         *)
(* app.py is the only file of the repository at hand.  The module registry *)
(* and loader (core.module_loader) and the tenant resolver                 *)
(* (core_modules.tenancy.middleware) are modelled from their description   *)
(* in spec.md, sections 4.1 to 4.3.                                        *)
(***************************************************************************)
EXTENDS Naturals, Sequences, FiniteSets, TLC

\* Bound: how many module descriptors discovery may return.
MaxModules == 2

\* Names of the module packages discovery may find, in discovery order.
ModulePool == <<"accounting", "crm", "inventory", "hr">>

\* A dependency name that no discovered module carries.
Ghost == "ghost"

\* Tenants the external Tenant Directory may hold.
TenantUniverse ==
    { [id |-> 1, routing_key |-> "acme", status |-> "active"],
      [id |-> 2, routing_key |-> "beta", status |-> "disabled"] }

\* Routing keys a request may carry (host, path prefix or header).
RoutingKeys == {"acme", "beta", "zeta"}

\* settings.VERSION (core.config); its value is not part of app.py.
VERSION == "settings.VERSION"

VARIABLES
    discovered,      \* descriptors found by discovery, in discovery order
    tenants,         \* the Tenant Directory's content
    lateMiddleware,  \* can the framework still take middleware at startup?
    routes,          \* app.router.routes, in registration order
    middleware,      \* app.user_middleware, outermost first
    manifest,        \* the loader's module manifest
    ordered,         \* the load order order() produced (names)
    phase,           \* "assembled" | "serving" | "aborted"
    abortReason,     \* the error that aborted startup, "none" otherwise
    loadRuns,        \* how many times load_modules(app) has run
    lastResp         \* the outcome of the last request served, or NoResp

vars == <<discovered, tenants, lateMiddleware, routes, middleware, manifest,
          ordered, phase, abortReason, loadRuns, lastResp>>

----------------------------------------------------------------------------
(* Helpers *)

Range(s) == { s[i] : i \in 1..Len(s) }

MinOf(S) == CHOOSE i \in S : \A j \in S : i <= j

RemoveAt(s, i) == SubSeq(s, 1, i - 1) \o SubSeq(s, i + 1, Len(s))

Names(ds) == { ds[i].name : i \in 1..Len(ds) }

----------------------------------------------------------------------------
(* Module-level assembly: app.py lines 34-98 *)

\* Starlette's add_middleware: user_middleware.insert(0, ...), so the
\* middleware added last is the outermost one.
add_middleware(chain, m) == <<m>> \o chain

CORSMiddleware == [kind |-> "cors", owner |-> "app"]

TenantMiddleware == [kind |-> "tenant", owner |-> "app"]

ModuleMiddleware(name) == [kind |-> "module", owner |-> name]

\* app.add_middleware(CORSMiddleware, ...); app.add_middleware(TenantMiddleware)
AssembledMiddleware ==
    add_middleware(add_middleware(<<>>, CORSMiddleware), TenantMiddleware)

Route(path, owner, handler) ==
    [path |-> path, owner |-> owner, handler |-> handler]

\* mount("/static"), @app.get("/"), include_router(setup_router),
\* @app.get("/api/health"), @app.get("/test"), in this order.
AssembledRoutes ==
    << Route("/static", "app", "static"),
       Route("/", "app", "root"),
       Route("/setup", "app", "setup_router"),
       Route("/api/health", "app", "health_check"),
       Route("/test", "app", "test_endpoint") >>

\* The route a module contributes.
ModuleRoute(name) == Route(name, name, "module")

\* The two bootstrap-only routes of the application assembly.
BootstrapPaths == {"/", "/api/health"}

----------------------------------------------------------------------------
(* Module Registry: order() *)

HasUnknownDependency(ds) ==
    \E i \in 1..Len(ds) : ~(ds[i].deps \subseteq Names(ds))

\* Kahn's algorithm over the known names, ties broken by discovery order.
\* Stuck with descriptors left: the rest lies on or behind a cycle.
RECURSIVE Kahn(_, _, _)
Kahn(rest, placed, known) ==
    IF rest = <<>> THEN [error |-> "none", seq |-> placed]
    ELSE LET ready == { i \in 1..Len(rest) :
                          (rest[i].deps \cap known) \subseteq Names(placed) }
         IN IF ready = {} THEN [error |-> "DependencyCycle", seq |-> <<>>]
            ELSE Kahn(RemoveAt(rest, MinOf(ready)),
                      Append(placed, rest[MinOf(ready)]), known)

\* Mutant of order: the discovery order, dependencies not looked at.
orderAsDiscovered(ds) ==
    IF HasUnknownDependency(ds)
    THEN [error |-> "UnknownDependency", seq |-> <<>>]
    ELSE [error |-> "none", seq |-> ds]

\* A cycle is reported before an unknown dependency is.
order(ds) ==
    LET k == Kahn(ds, <<>>, Names(ds))
    IN IF k.error # "none" THEN k
       ELSE IF HasUnknownDependency(ds)
            THEN [error |-> "UnknownDependency", seq |-> <<>>]
            ELSE k

----------------------------------------------------------------------------
(* Module Loader: load() *)

Entry(name, status) == [name |-> name, status |-> status]

\* One descriptor after the other: its middleware, then its routes; the
\* first failure is recorded and ends the run.
RECURSIVE load(_, _)
load(srv, ds) ==
    IF ds = <<>> THEN srv
    ELSE LET d == Head(ds)
             mwRaises == d.mw /\ ~lateMiddleware
             chain == IF d.mw /\ lateMiddleware
                      THEN add_middleware(srv.middleware, ModuleMiddleware(d.name))
                      ELSE srv.middleware
         IN IF mwRaises \/ d.bad
            THEN [routes |-> srv.routes, middleware |-> chain,
                  manifest |-> Append(srv.manifest, Entry(d.name, "failed")),
                  error |-> "RegistrationFailed"]
            ELSE load([routes |-> Append(srv.routes, ModuleRoute(d.name)),
                       middleware |-> chain,
                       manifest |-> Append(srv.manifest, Entry(d.name, "loaded")),
                       error |-> "none"],
                      Tail(ds))

\* load_modules(app): order the discovered descriptors, then load them.
load_modules(ds) ==
    LET o == order(ds)
        srv == [routes |-> routes, middleware |-> middleware,
                manifest |-> <<>>, error |-> "none"]
    IN IF o.error # "none"
       THEN [srv EXCEPT !.error = o.error] @@ [order |-> <<>>]
       ELSE load(srv, o.seq) @@ [order |-> [i \in 1..Len(o.seq) |-> o.seq[i].name]]

----------------------------------------------------------------------------
(* Startup: app.py lines 136-153 *)

\* Mutant of AfterStartup: the exception is logged and not raised again.
AfterStartupSwallowed(raised) == "serving"

\* except Exception: log, raise.  The lifespan startup fails and the server
\* exits; otherwise the server starts to accept connections.

AfterStartup(raised) == IF raised THEN "aborted" ELSE "serving"

startup_event ==
    /\ phase = "assembled"
    /\ LET r == load_modules(discovered)
       IN /\ routes' = r.routes
          /\ middleware' = r.middleware
          /\ manifest' = r.manifest
          /\ ordered' = r.order
          /\ abortReason' = r.error
          /\ phase' = AfterStartup(r.error # "none")
    /\ loadRuns' = loadRuns + 1
    /\ UNCHANGED <<discovered, tenants, lateMiddleware, lastResp>>

----------------------------------------------------------------------------
(* Tenant Resolver *)

Resolve(path, key, dirOK) ==
    IF path \in BootstrapPaths THEN "unresolved"
    ELSE IF ~dirOK THEN "directory-unavailable"
    ELSE IF tenants = {} THEN "zero-tenant-bootstrap"
    ELSE LET m == { t \in tenants : t.routing_key = key }
         IN IF m = {} THEN "unresolved"
            ELSE IF (CHOOSE t \in m : TRUE).status = "active"
                 THEN "resolved-active"
                 ELSE "resolved-unavailable"

----------------------------------------------------------------------------
(* Route handlers: app.py lines 66-133 *)

Reply(status, location, body) ==
    [status |-> status, location |-> location, body |-> body]

\* Mutant of root: the two redirect targets exchanged.
rootSwapped(dirOK) ==
    IF ~dirOK THEN Reply(500, "", [error |-> "Exception"])
    ELSE IF tenants = {} THEN Reply(303, "/login", [redirect |-> "/login"])
    ELSE Reply(303, "/setup", [redirect |-> "/setup"])

\* Mutant of root: a failed query read as an empty tenant list.
rootOutageAsEmpty(dirOK) ==
    IF ~dirOK \/ tenants = {} THEN Reply(303, "/setup", [redirect |-> "/setup"])
    ELSE Reply(303, "/login", [redirect |-> "/login"])

\* GET /: 303 to /setup without tenants, to /login with;  a raising
\* get_all_tenants(db) is logged and raised again (500).
root(dirOK) ==
    IF ~dirOK THEN Reply(500, "", [error |-> "Exception"])
    ELSE IF tenants = {} THEN Reply(303, "/setup", [redirect |-> "/setup"])
    ELSE Reply(303, "/login", [redirect |-> "/login"])

health_check == Reply(200, "", [status |-> "ok", version |-> VERSION])

test_endpoint == Reply(200, "", [html |-> "Test Endpoint"])

\* The StaticFiles application mounted at /static.
static_files == Reply(200, "", [file |-> "static"])

\* The setup wizard's controller.
setup_router == Reply(200, "", [html |-> "setup"])

\* A module's business handler reads the tenant context.
module_handler(ctx) ==
    IF ctx = "zero-tenant-bootstrap"
    THEN Reply(303, "/setup", [redirect |-> "/setup"])
    ELSE IF ctx = "resolved-active" THEN Reply(200, "", [html |-> "business"])
    ELSE Reply(404, "", [error |-> "NotFound"])

Handle(handler, ctx, dirOK) ==
    CASE handler = "root" -> root(dirOK)
      [] handler = "health_check" -> health_check
      [] handler = "test_endpoint" -> test_endpoint
      [] handler = "static" -> static_files
      [] handler = "setup_router" -> setup_router
      [] handler = "module" -> module_handler(ctx)
      [] OTHER -> Reply(404, "", [error |-> "NotFound"])

\* The first route of the table that matches the path.
Match(path) ==
    LET hits == { i \in 1..Len(routes) : routes[i].path = path }
    IN IF hits = {} THEN "none" ELSE routes[MinOf(hits)].handler

\* The chain runs outermost first; only the tenant resolver ends a request
\* early (an unavailable tenant, an unreachable directory).
Respond(path, key, dirOK) ==
    LET ctx == Resolve(path, key, dirOK)
        at == MinOf({ i \in 1..Len(middleware) : middleware[i].kind = "tenant" })
        stopped == ctx \in {"resolved-unavailable", "directory-unavailable"}
        handler == IF stopped THEN "none" ELSE Match(path)
        reply == IF ctx = "resolved-unavailable"
                 THEN Reply(403, "", [error |-> "TenantUnavailable"])
                 ELSE IF ctx = "directory-unavailable"
                 THEN Reply(503, "", [error |-> "TenantDirectoryUnavailable"])
                 ELSE Handle(handler, ctx, dirOK)
    IN [path |-> path, key |-> key, dirOK |-> dirOK, ctx |-> ctx,
        chain |-> IF stopped THEN SubSeq(middleware, 1, at) ELSE middleware,
        handler |-> handler, status |-> reply.status,
        location |-> reply.location, body |-> reply.body]

NoResp == [path |-> "none"]

RequestPaths ==
    {"/", "/api/health", "/test", "/setup", "/static", "/missing"}
        \cup Range(ModulePool)

\* Mutant of ServerReady: requests are taken before the startup event ran.
ServerReadyEarly == phase \in {"assembled", "serving"}

\* uvicorn dispatches requests once the lifespan startup has completed.

ServerReady == phase = "serving"

\* Mutant of Serve: a handler that registers a route while serving.
ServeAndRegister(path, key, dirOK) ==
    /\ ServerReady
    /\ lastResp' = Respond(path, key, dirOK)
    /\ routes' = IF path = "/test" /\ Len(routes) <= Len(AssembledRoutes) + MaxModules
                 THEN Append(routes, Route("/late", "app", "test_endpoint"))
                 ELSE routes
    /\ UNCHANGED <<discovered, tenants, lateMiddleware, middleware,
                   manifest, ordered, phase, abortReason, loadRuns>>

Serve(path, key, dirOK) ==
    /\ ServerReady
    /\ lastResp' = Respond(path, key, dirOK)
    /\ UNCHANGED <<discovered, tenants, lateMiddleware, routes, middleware,
                   manifest, ordered, phase, abortReason, loadRuns>>

HandleRequest ==
    \E path \in RequestPaths, key \in RoutingKeys, dirOK \in BOOLEAN :
        Serve(path, key, dirOK)

----------------------------------------------------------------------------
(* Specification *)

\* Descriptors as discovery returns them: unique names, in discovery order.
Descriptor(i, n) ==
    [ name : {ModulePool[i]},
      deps : SUBSET (({ ModulePool[j] : j \in 1..n } \ {ModulePool[i]}) \cup {Ghost}),
      mw   : BOOLEAN,
      bad  : BOOLEAN ]

Discoveries ==
    UNION { { ds \in [1..n -> UNION { Descriptor(i, n) : i \in 1..n }] :
                \A i \in 1..n : ds[i] \in Descriptor(i, n) } : n \in 0..MaxModules }

Init ==
    /\ discovered \in Discoveries
    /\ tenants \in SUBSET TenantUniverse
    /\ lateMiddleware \in BOOLEAN
    /\ routes = AssembledRoutes
    /\ middleware = AssembledMiddleware
    /\ manifest = <<>>
    /\ ordered = <<>>
    /\ phase = "assembled"
    /\ abortReason = "none"
    /\ loadRuns = 0
    /\ lastResp = NoResp

Next == startup_event \/ HandleRequest

Spec == Init /\ [][Next]_vars

----------------------------------------------------------------------------
(* Properties *)

Served == lastResp # NoResp

\* A dependency cycle: a non-empty set of discovered modules each of which
\* depends on a member of the set.
HasCycle(ds) ==
    \E S \in (SUBSET Names(ds)) \ {{}} :
        \A i \in 1..Len(ds) : ds[i].name \in S => ds[i].deps \cap S # {}

DepsOf(name) ==
    (CHOOSE d \in Range(discovered) : d.name = name).deps

Owners(s) == { s[i].owner : i \in 1..Len(s) }

\* C1: a GET / whose tenant query succeeded is answered with a 303 redirect,
\* to /setup when the directory holds no tenant and to /login when it holds
\* one or more, whatever routing key the request carries.
C1_RootRedirect ==
    (lastResp.path = "/" /\ lastResp.dirOK) =>
        /\ lastResp.status = 303
        /\ lastResp.location = IF tenants = {} THEN "/setup" ELSE "/login"

\* C1 witness: GET / carrying the key of a disabled tenant went to /login.
C1_Witness ==
    /\ lastResp.path = "/" /\ lastResp.dirOK /\ lastResp.key = "beta"
    /\ \E t \in tenants : t.routing_key = "beta"
    /\ lastResp.location = "/login"

\* C2: a GET / whose tenant query raised ends as an error, never as a
\* redirect to the setup path or to the login path.
C2_OutageIsNotZeroTenants ==
    (lastResp.path = "/" /\ ~lastResp.dirOK) =>
        /\ lastResp.status = 500
        /\ lastResp.location \notin {"/setup", "/login"}
        /\ "redirect" \notin DOMAIN lastResp.body

\* C2 witness: the query raised while the directory held no tenant.
C2_Witness ==
    /\ lastResp.path = "/" /\ ~lastResp.dirOK /\ tenants = {}
    /\ lastResp.status = 500

\* C3: load_modules runs at most once; a request is served only after its
\* single run has loaded every discovered module, and never after a run that
\* raised.
C3_LoadBeforeServe ==
    /\ loadRuns <= 1
    /\ Served =>
          /\ phase = "serving" /\ loadRuns = 1 /\ abortReason = "none"
          /\ Len(manifest) = Len(discovered)
          /\ \A i \in 1..Len(manifest) : manifest[i].status = "loaded"
    /\ abortReason # "none" => phase = "aborted" /\ ~Served

\* C3 witness: a request served after two modules were loaded.
C3_Witness == Served /\ Len(manifest) = 2 /\ loadRuns = 1

\* C4: a failed manifest entry is the last one; the entries before it are the
\* modules before it in load order, all loaded; no module after it has a
\* route or a middleware on the server; startup has aborted and nothing is
\* served.
C4_FailFast ==
    \A k \in 1..Len(manifest) :
        manifest[k].status = "failed" =>
            /\ k = Len(manifest)
            /\ \A i \in 1..k : manifest[i].name = ordered[i]
            /\ \A i \in 1..(k - 1) : manifest[i].status = "loaded"
            /\ \A j \in (k + 1)..Len(ordered) :
                  ordered[j] \notin Owners(routes) \cup Owners(middleware)
            /\ ordered[k] \notin Owners(routes)
            /\ phase = "aborted" /\ ~Served

\* C4 witness: crm depends on accounting, accounting fails to register.
C4_Witness ==
    /\ Len(discovered) = 2 /\ discovered[2].deps = {ModulePool[1]}
    /\ manifest = <<Entry(ModulePool[1], "failed")>>
    /\ ordered = <<ModulePool[1], ModulePool[2]>>

\* C5: without a cycle and without an unknown dependency the load order holds
\* every discovered module exactly once, each after all its dependencies.
C5_TopologicalOrder ==
    (phase # "assembled" /\ ~HasCycle(discovered)
                         /\ ~HasUnknownDependency(discovered)) =>
        /\ Len(ordered) = Len(discovered)
        /\ Range(ordered) = Names(discovered)
        /\ \A i \in 1..Len(ordered) :
              \A dep \in DepsOf(ordered[i]) :
                  \E j \in 1..(i - 1) : ordered[j] = dep

\* C5 witness: the load order differs from the discovery order.
C5_Witness ==
    /\ phase = "serving" /\ Len(ordered) = 2
    /\ ordered[1] = ModulePool[2]

\* C6 as stated: with a dependency cycle startup aborts with DependencyCycle
\* and the server's route table is empty at the abort.
C6_RouteTableEmpty ==
    (phase # "assembled" /\ HasCycle(discovered)) =>
        /\ phase = "aborted" /\ abortReason = "DependencyCycle"
        /\ routes = <<>>

\* C6 amended: with a dependency cycle startup aborts with DependencyCycle
\* and no module has a route or a middleware on the server; the table holds
\* the routes of the module-level assembly only.
C6_NoModuleRoute ==
    (phase # "assembled" /\ HasCycle(discovered)) =>
        /\ phase = "aborted" /\ abortReason = "DependencyCycle"
        /\ Owners(routes) \subseteq {"app"}
        /\ Owners(middleware) \subseteq {"app"}
        /\ manifest = <<>> /\ ~Served

\* C6 witness: startup aborted on a cycle that sits beside an unknown
\* dependency.
C6_Witness ==
    /\ phase = "aborted" /\ HasCycle(discovered)
    /\ HasUnknownDependency(discovered)

\* C7: while the directory reports zero tenants, a request to a route other
\* than / and the health check ends in the zero-tenant-bootstrap state and
\* reaches no handler but the setup flow's: it is steered to the setup path.
C7_ZeroTenantsSetupFlow ==
    (Served /\ tenants = {} /\ lastResp.dirOK
            /\ lastResp.path \notin BootstrapPaths) =>
        /\ lastResp.ctx = "zero-tenant-bootstrap"
        /\ \/ lastResp.handler \in {"setup_router", "none"}
           \/ lastResp.status = 303 /\ lastResp.location = "/setup"

\* C8: the health check's response carries status, version and the module
\* manifest the loader recorded, with status ok only if no entry failed.
C8_HealthReportsManifest ==
    lastResp.path = "/api/health" =>
        /\ DOMAIN lastResp.body = {"status", "version", "module_manifest"}
        /\ lastResp.body.module_manifest = manifest
        /\ lastResp.body.status \in {"ok", "degraded"}
        /\ lastResp.body.status = "ok" =>
              \A i \in 1..Len(manifest) : manifest[i].status # "failed"

C10_FrozenAfterStartup ==
    [][ (routes' # routes \/ middleware' # middleware) =>
            /\ phase = "assembled" /\ loadRuns = 0 /\ ~Served
            /\ loadRuns' = 1 ]_vars

\* C10 witness: a request served by a server that carries module routes and
\* a module middleware.
C10_Witness ==
    /\ Served /\ phase = "serving"
    /\ Len(routes) > Len(AssembledRoutes)
    /\ Len(middleware) > Len(AssembledMiddleware)

====
